---- MODULE Spec2Model ----
(***************************************************************************)
(* Period Poverty API: the analytics routes (app/routers/analytics.py)     *)
(* and the basket routes (app/routers/basket.py) over the four tables of   *)
(* app/models.py.                                                          *)
(*                                                                         *)
(* Numbers.  The code computes in Python floats.  Here every float is an   *)
(* exact rational [n, d] (d > 0, lowest terms), and round(x, k) rounds the *)
(* exact value to k decimals, ties to the even neighbour (what Python's    *)
(* round does on a value that is exactly representable).                   *)
(* Optional values.  Python's None is the empty tuple, a present value v   *)
(* is the one-element tuple <<v>>.                                         *)
(* Strings that the code parses are tuples of one-character strings.       *)
(***************************************************************************)
EXTENDS Integers, Sequences, FiniteSets, TLC

VARIABLES db, resp, session, reqs

vars == <<db, resp, session, reqs>>

None == <<>>
Some(v) == <<v>>

-----------------------------------------------------------------------------
(* Bounds of the model.                                                    *)

\* rows of a database whose four tables are populated together
MaxRows == 3
\* basket requests in flight at once
MaxRequests == 2
\* the largest primary key basket_item hands out
MaxId == 3

\* most rows of the basket_item table
MaxBasket == 2
\* most lines in the body of a cost-estimate request
MaxLines == 2
\* most rows of the price_index table
MaxPrices == 2
\* most rows of the income_poverty table
MaxWelfare == 2
\* most rows of the hygiene_access table
MaxHygiene == 2

-----------------------------------------------------------------------------
(* Exact arithmetic standing for Python's float arithmetic.                *)

Abs(x) == IF x < 0 THEN -x ELSE x

RECURSIVE GCD(_, _)
GCD(a, b) == IF b = 0 THEN a ELSE GCD(b, a % b)

\* the rational n/d in lowest terms with a positive denominator (d # 0)
Q(n, d) ==
    LET s == IF d < 0 THEN -1 ELSE 1
        g == GCD(Abs(n), Abs(d))
    IN [n |-> (s * n) \div g, d |-> (s * d) \div g]

QInt(i) == [n |-> i, d |-> 1]
\* sums over the least common denominator, products reduced crosswise first,
\* so that no intermediate value is larger than it has to be
QAdd(a, b) ==
    LET g == GCD(a.d, b.d)
    IN Q(a.n * (b.d \div g) + b.n * (a.d \div g), (a.d \div g) * b.d)
QNeg(a) == [n |-> -a.n, d |-> a.d]
QSub(a, b) == QAdd(a, QNeg(b))
QMul(a, b) ==
    LET g1 == GCD(Abs(a.n), b.d)
        g2 == GCD(Abs(b.n), a.d)
    IN Q((a.n \div g1) * (b.n \div g2), (a.d \div g2) * (b.d \div g1))
\* a / b for b # 0
QDiv(a, b) == QMul(a, Q(b.d, b.n))
QLt(a, b) == a.n * b.d < b.n * a.d
QLe(a, b) == a.n * b.d <= b.n * a.d

Pow10(k) == CASE k = 0 -> 1 [] k = 1 -> 10 [] k = 2 -> 100 [] k = 3 -> 1000 [] k = 4 -> 10000

\* floor(n * 10^k / d) and the remainder, for d > 0, by long division
RECURSIVE ScaledFloor(_, _, _)
ScaledFloor(n, d, k) ==
    IF k = 0 THEN [q |-> n \div d, r |-> n % d]
    ELSE LET p == ScaledFloor(n, d, k - 1)
         IN [q |-> p.q * 10 + ((p.r * 10) \div d), r |-> (p.r * 10) % d]

\* the integer nearest to n * 10^k / d (d > 0), a tie going to the even one
RoundHalfEven(n, d, k) ==
    LET p == ScaledFloor(n, d, k)
    IN IF 2 * p.r < d THEN p.q
       ELSE IF 2 * p.r > d THEN p.q + 1
       ELSE IF p.q % 2 = 0 THEN p.q ELSE p.q + 1

\* Python's round(x, k)
Round(x, k) == Q(RoundHalfEven(x.n, x.d, k), Pow10(k))

-----------------------------------------------------------------------------
(* Calendar dates and the strings that carry them.                         *)

Date(y, m, d) == [year |-> y, month |-> m, day |-> d]

\* date1 < date2, date1 <= date2 (datetime.date comparison)
DateLt(a, b) ==
    \/ a.year < b.year
    \/ a.year = b.year /\ a.month < b.month
    \/ a.year = b.year /\ a.month = b.month /\ a.day < b.day
DateLe(a, b) == a = b \/ DateLt(a, b)

IsLeap(y) == (y % 4 = 0 /\ y % 100 # 0) \/ y % 400 = 0

DaysInMonth(y, m) ==
    IF m = 2 THEN (IF IsLeap(y) THEN 29 ELSE 28)
    ELSE IF m \in {4, 6, 9, 11} THEN 30 ELSE 31

\* datetime.date(y, m, d) raises ValueError unless this holds
ValidDate(y, m, d) ==
    /\ y \in 1..9999
    /\ m \in 1..12
    /\ d \in 1..DaysInMonth(y, m)

DigitChars == <<"0", "1", "2", "3", "4", "5", "6", "7", "8", "9">>
IsDigit(c) == \E i \in 1..10 : DigitChars[i] = c
DigitVal(c) == (CHOOSE i \in 1..10 : DigitChars[i] = c) - 1
NonZeroDigit(c) == IsDigit(c) /\ c # "0"

\* the character of s at position i, "" past the end
At(s, i) == IF i \in 1..Len(s) THEN s[i] ELSE ""

\* int() of the len characters of s from position i (digits, blanks skipped)
RECURSIVE IntOf(_, _, _)
IntOf(s, i, len) ==
    IF len = 0 THEN 0
    ELSE LET c == s[i + len - 1]
         IN IF IsDigit(c) THEN 10 * IntOf(s, i, len - 1) + DigitVal(c)
            ELSE IntOf(s, i, len - 1)

\* the n low decimal digits of v, zero padded (the %04d, %02d of isoformat)
RECURSIVE Padded(_, _)
Padded(v, n) ==
    IF n = 0 THEN <<>> ELSE Append(Padded(v \div 10, n - 1), DigitChars[(v % 10) + 1])

\* date.isoformat(): YYYY-MM-DD
isoformat(date) ==
    Padded(date.year, 4) \o <<"-">> \o Padded(date.month, 2) \o <<"-">> \o Padded(date.day, 2)

(* strptime's regular expressions: %Y is \d\d\d\d, %m is                   *)
(* 1[0-2]|0[1-9]|[1-9], %d is 3[0-1]|[1-2]\d|0[1-9]|[1-9]| [1-9].  Each of  *)
(* the next two gives the lengths of the alternatives that match at        *)
(* position i of s, in the order the regular expression tries them.        *)
MonthAlts(s, i) ==
    (IF At(s, i) = "1" /\ At(s, i + 1) \in {"0", "1", "2"} THEN <<2>> ELSE <<>>)
    \o (IF At(s, i) = "0" /\ NonZeroDigit(At(s, i + 1)) THEN <<2>> ELSE <<>>)
    \o (IF NonZeroDigit(At(s, i)) THEN <<1>> ELSE <<>>)

DayAlts(s, i) ==
    (IF At(s, i) = "3" /\ At(s, i + 1) \in {"0", "1"} THEN <<2>> ELSE <<>>)
    \o (IF At(s, i) \in {"1", "2"} /\ IsDigit(At(s, i + 1)) THEN <<2>> ELSE <<>>)
    \o (IF At(s, i) = "0" /\ NonZeroDigit(At(s, i + 1)) THEN <<2>> ELSE <<>>)
    \o (IF NonZeroDigit(At(s, i)) THEN <<1>> ELSE <<>>)
    \o (IF At(s, i) = " " /\ NonZeroDigit(At(s, i + 1)) THEN <<2>> ELSE <<>>)

YearAt(s) == \A i \in 1..4 : IsDigit(At(s, i))

ValueError == [ok |-> FALSE]

\* datetime.strptime(s, "%Y-%m-%d"): the match from the start of s, the
\* whole of s consumed, the fields a date of the calendar
StrpYmd(s) ==
    LET \* the month alternatives after which "-" and a day follow
        ms == SelectSeq(MonthAlts(s, 6),
                        LAMBDA l : At(s, 6 + l) = "-" /\ DayAlts(s, 7 + l) # <<>>)
    IN IF ~(YearAt(s) /\ At(s, 5) = "-" /\ ms # <<>>) THEN ValueError
       ELSE LET ml == Head(ms)
                dl == Head(DayAlts(s, 7 + ml))
                y == IntOf(s, 1, 4)
                m == IntOf(s, 6, ml)
                d == IntOf(s, 7 + ml, dl)
            IN IF 6 + ml + dl # Len(s) THEN ValueError  \* unconverted data remains
               ELSE IF ~ValidDate(y, m, d) THEN ValueError
               ELSE [ok |-> TRUE, date |-> Date(y, m, d)]

\* datetime.strptime(s, "%Y-%m"): the day defaults to 1
StrpYm(s) ==
    IF ~(YearAt(s) /\ At(s, 5) = "-" /\ MonthAlts(s, 6) # <<>>) THEN ValueError
    ELSE LET ml == Head(MonthAlts(s, 6))
             y == IntOf(s, 1, 4)
             m == IntOf(s, 6, ml)
         IN IF 5 + ml # Len(s) THEN ValueError  \* unconverted data remains
            ELSE IF ~ValidDate(y, m, 1) THEN ValueError
            ELSE [ok |-> TRUE, date |-> Date(y, m, 1)]

\* raise HTTPException(status_code, detail)
HTTPException(status_code, detail) ==
    [ok |-> FALSE, status_code |-> status_code, detail |-> detail]

\* parse_month_or_date(s).date(): the full date first, then the month
parse_month_or_date(s) ==
    IF StrpYmd(s).ok THEN StrpYmd(s)
    ELSE IF StrpYm(s).ok
         THEN [ok |-> TRUE, date |-> Date(StrpYm(s).date.year, StrpYm(s).date.month, 1)]
         ELSE HTTPException(400, "Invalid date format. Use YYYY-MM or YYYY-MM-DD.")

-----------------------------------------------------------------------------
(* The tables (app/models.py) and the rows the model draws them from.      *)
(* db.price_index and db.income_poverty are sets: every query on them      *)
(* either orders by a unique column or selects by a unique key.            *)
(* db.basket_item and db.hygiene_access are sequences, the order in which  *)
(* a query without ORDER BY returns the rows (the storage order).          *)

\* schemas.BasketLine values; unit_price >= 0 and units_per_month >= 0
LineUniverse ==
    { [name |-> "pads pack", unit_price |-> Q(250, 100), units_per_month |-> QInt(2),
       currency |-> "GBP", notes |-> None],
      [name |-> "tampons", unit_price |-> Q(199, 100), units_per_month |-> QInt(1),
       currency |-> "GBP", notes |-> Some("supermarket average")],
      [name |-> "pads pack", unit_price |-> Q(333, 100), units_per_month |-> QInt(3),
       currency |-> "USD", notes |-> None] }

\* models.BasketItem rows without their id; name is unique in the table
ItemUniverse ==
    LineUniverse \cup
    { [name |-> "menstrual cup", unit_price |-> QInt(20), units_per_month |-> QInt(0),
       currency |-> "GBP", notes |-> None] }

\* models.PriceIndex rows (the columns the analytics routes read); date is unique
PriceUniverse ==
    { [date |-> Date(2024, 12, 31), cpi_index |-> QInt(99), pct_change_yoy |-> None],
      [date |-> Date(2025, 1, 1), cpi_index |-> Q(1005, 10), pct_change_yoy |-> Some(QInt(10))],
      [date |-> Date(2025, 1, 31), cpi_index |-> Q(1006, 10), pct_change_yoy |-> Some(QInt(0))],
      [date |-> Date(2025, 2, 1), cpi_index |-> QInt(101), pct_change_yoy |-> Some(Q(34, 10))] }

\* models.IncomePoverty rows; (year, percentile) is unique, avg_welfare any float
WelfareUniverse ==
    { [year |-> 2018, percentile |-> 20, avg_welfare |-> QInt(20), welfare_type |-> Some("income")],
      [year |-> 2018, percentile |-> 20, avg_welfare |-> Q(1, 10), welfare_type |-> None],
      [year |-> 2018, percentile |-> 50, avg_welfare |-> QInt(0), welfare_type |-> Some("income")],
      [year |-> 2019, percentile |-> 20, avg_welfare |-> Q(-3, 2), welfare_type |-> Some("income")] }

\* models.HygieneAccess rows; (country, year, indicator) is unique, year any integer
HygieneUniverse ==
    { [country |-> "United Kingdom", year |-> 2018, indicator |-> "bathing_facility", value |-> Q(997, 10)],
      [country |-> "United Kingdom", year |-> 2018, indicator |-> "handwashing", value |-> QInt(0)],
      [country |-> "United Kingdom", year |-> 2020, indicator |-> "bathing_facility", value |-> QInt(100)],
      [country |-> "United Kingdom", year |-> 0, indicator |-> "bathing_facility", value |-> QInt(50)] }

\* the sequences over S of length at most n
SeqsUpTo(S, n) == UNION {[1..k -> S] : k \in 0..n}

Range(f) == {f[i] : i \in DOMAIN f}

\* BasketItem.name is unique
UniqueNames(rows) == \A i, j \in DOMAIN rows : rows[i].name = rows[j].name => i = j

\* uq_hygiene_country_year_indicator
HygieneKey(r) == <<r.country, r.year, r.indicator>>
UniqueHygieneKeys(rows) ==
    \A i, j \in DOMAIN rows : HygieneKey(rows[i]) = HygieneKey(rows[j]) => i = j

\* basket_item with the ids the autoincrement primary key gave
BasketTables ==
    { [i \in DOMAIN rows |->
          [id |-> i, name |-> rows[i].name, unit_price |-> rows[i].unit_price,
           units_per_month |-> rows[i].units_per_month, currency |-> rows[i].currency,
           notes |-> rows[i].notes]] :
      rows \in {x \in SeqsUpTo(ItemUniverse, MaxBasket) : UniqueNames(x)} }

PriceTables ==
    { t \in SUBSET PriceUniverse :
        /\ Cardinality(t) <= MaxPrices
        /\ \A a, b \in t : a.date = b.date => a = b }

WelfareTables ==
    { t \in SUBSET WelfareUniverse :
        /\ Cardinality(t) <= MaxWelfare
        /\ \A a, b \in t : (a.year = b.year /\ a.percentile = b.percentile) => a = b }

HygieneTables == {x \in SeqsUpTo(HygieneUniverse, MaxHygiene) : UniqueHygieneKeys(x)}

\* year and percentile query parameters (1900 <= year <= 2100, 1 <= percentile <= 100)
Years == {2018, 2019}
Percentiles == {20, 50}

\* the lines of a cost-estimate body: absent, or a list of at most MaxLines
LinesParams == {None} \cup {Some(l) : l \in SeqsUpTo(LineUniverse, MaxLines)}

\* the from/to query parameters of the trend route: absent, or a string
BoundStrings ==
    { <<>>,
      <<"2", "0", "2", "5", "-", "0", "1">>,
      <<"2", "0", "2", "5", "-", "0", "1", "-", "0", "1">>,
      <<"2", "0", "2", "5", "-", "0", "1", "-", "3", "1">>,
      <<"2", "0", "2", "5", "-", "0", "2">>,
      <<"2", "0", "2", "5", "-", "1">>,
      <<"2", "0", "2", "5", "-", "1", "3">>,
      <<"2", "0", "2", "5", "-", "0", "2", "-", "3", "0">> }
BoundParams == {None} \cup {Some(s) : s \in BoundStrings}

-----------------------------------------------------------------------------
(* The handlers of app/routers/analytics.py, each a function of the        *)
(* database it queries and of its request parameters.  The result is       *)
(* [ok |-> TRUE, body |-> the response model] or the HTTPException raised. *)

\* bool(x) of an optional string or list: None and the empty one are false
Truthy(opt) == opt # None /\ opt[1] # <<>>

\* _sum_basket_lines: sum(li.unit_price * li.units_per_month for li in lines)
RECURSIVE _sum_basket_lines(_)
_sum_basket_lines(lines) ==
    IF lines = <<>> THEN QInt(0)
    ELSE QAdd(QMul(Head(lines).unit_price, Head(lines).units_per_month),
              _sum_basket_lines(Tail(lines)))

\* .order_by(PriceIndex.date.asc()).all()
RECURSIVE OrderByDateAsc(_)
OrderByDateAsc(rows) ==
    IF rows = {} THEN <<>>
    ELSE LET first == CHOOSE r \in rows : \A o \in rows : DateLe(r.date, o.date)
         IN <<first>> \o OrderByDateAsc(rows \ {first})

\* .order_by(PriceIndex.date.desc()).first()
LatestPrice(d) ==
    IF d.price_index = {} THEN None
    ELSE Some(CHOOSE r \in d.price_index : \A o \in d.price_index : DateLe(o.date, r.date))

InflationTrendPoint(r) ==
    [date |-> isoformat(r.date), cpi_index |-> r.cpi_index, pct_change_yoy |-> r.pct_change_yoy]

\* q.filter(PriceIndex.date >= start)
FilterFrom(rows, start) == {r \in rows : DateLe(start, r.date)}

\* faulty variant of FilterTo: the upper bound excluded
FilterToExclusive(rows, end) == {r \in rows : DateLt(r.date, end)}

\* q.filter(PriceIndex.date <= end)
FilterTo(rows, end) == {r \in rows : DateLe(r.date, end)}

inflation_trend(d, from_, to) ==
    LET start == parse_month_or_date(from_[1])
        end == parse_month_or_date(to[1])
        q0 == d.price_index
        q1 == IF Truthy(from_) THEN FilterFrom(q0, start.date) ELSE q0
        q2 == IF Truthy(to) THEN FilterTo(q1, end.date) ELSE q1
        rows == OrderByDateAsc(q2)
    IN IF Truthy(from_) /\ ~start.ok THEN start
       ELSE IF Truthy(to) /\ ~end.ok THEN end
       \* from_=from_ is not the field's alias ("from"): the response model
       \* ignores it and the field keeps its default
       ELSE [ok |-> TRUE,
             body |-> [from_ |-> None, to |-> to,
                       points |-> [i \in DOMAIN rows |-> InflationTrendPoint(rows[i])]]]

\* BasketLine(name=i.name, unit_price=i.unit_price, ...) of a basket_item row
BasketLine(i) ==
    [name |-> i.name, unit_price |-> i.unit_price, units_per_month |-> i.units_per_month,
     currency |-> i.currency, notes |-> i.notes]

\* faulty variant of ResolveLines: the table wins whenever it has rows
ResolveLinesStoreFirst(d, payload) ==
    IF d.basket_item # <<>> THEN [k \in DOMAIN d.basket_item |-> BasketLine(d.basket_item[k])]
    ELSE IF Truthy(payload.lines) THEN payload.lines[1]
    ELSE <<>>

\* step 1 of cost_estimate: the lines of the body, else the rows of the table
ResolveLines(d, payload) ==
    IF Truthy(payload.lines) THEN payload.lines[1]
    ELSE [k \in DOMAIN d.basket_item |-> BasketLine(d.basket_item[k])]

\* faulty variant of ApplyYoy: the uplift applied twice
ApplyYoyTwice(monthly, latest) ==
    LET yoy == IF latest.pct_change_yoy = None THEN QInt(0) ELSE latest.pct_change_yoy[1]
        factor == QAdd(QInt(1), QDiv(yoy, QInt(100)))
    IN QMul(QMul(monthly, factor), factor)

\* step 3 of cost_estimate: monthly * (1.0 + yoy / 100.0), yoy = pct_change_yoy or 0.0
ApplyYoy(monthly, latest) ==
    LET yoy == IF latest.pct_change_yoy = None THEN QInt(0) ELSE latest.pct_change_yoy[1]
    IN QMul(monthly, QAdd(QInt(1), QDiv(yoy, QInt(100))))

cost_estimate(d, payload) ==
    LET lines == ResolveLines(d, payload)
        base == _sum_basket_lines(lines)
        latest == LatestPrice(d)
    IN IF lines = <<>>
       THEN HTTPException(400, "No basket items provided or found in DB.")
       ELSE IF payload.apply_yoy_cpi /\ latest = None
       THEN HTTPException(400, "No CPI data available to apply YoY inflation.")
       ELSE LET monthly == IF payload.apply_yoy_cpi THEN ApplyYoy(base, latest[1]) ELSE base
                annual == QMul(monthly, QInt(12))
            IN [ok |-> TRUE,
                body |-> [monthly_cost |-> Round(monthly, 2),
                          annual_cost |-> Round(annual, 2),
                          used_lines |-> lines]]

\* faulty variant of cost_estimate_store: the lines of the body saved as rows
cost_estimate_store_lines(d, payload) ==
    IF Truthy(payload.lines)
    THEN [d EXCEPT !.basket_item =
            @ \o [i \in DOMAIN payload.lines[1] |->
                    [id |-> Len(d.basket_item) + i,
                     name |-> payload.lines[1][i].name,
                     unit_price |-> payload.lines[1][i].unit_price,
                     units_per_month |-> payload.lines[1][i].units_per_month,
                     currency |-> payload.lines[1][i].currency,
                     notes |-> payload.lines[1][i].notes]]]
    ELSE d

\* the database after cost_estimate: the handler only queries; the
\* BasketLine values it works on are schema objects, nothing is added to
\* the session and commit is never called
cost_estimate_store(d, payload) == d

\* faulty variant of BurdenAnnualCost: the latest year-over-year change applied
BurdenAnnualCostUplifted(d) ==
    LET annual == QMul(_sum_basket_lines(d.basket_item), QInt(12))
    IN IF LatestPrice(d) = None THEN annual ELSE ApplyYoy(annual, LatestPrice(d)[1])

\* cost_burden's sum(i.unit_price * i.units_per_month for i in items) * 12.0
\* over items = db.query(BasketItem).all()
BurdenAnnualCost(d) == QMul(_sum_basket_lines(d.basket_item), QInt(12))

\* faulty variant of WelfareRow: the percentile filter forgotten
WelfareRowAnyPercentile(d, year, percentile) ==
    LET found == {r \in d.income_poverty : r.year = year}
    IN IF found = {} THEN None ELSE Some(CHOOSE r \in found : TRUE)

\* db.query(IncomePoverty).filter(year == .., percentile == ..).first()
WelfareRow(d, year, percentile) ==
    LET found == {r \in d.income_poverty : r.year = year /\ r.percentile = percentile}
    IN IF found = {} THEN None ELSE Some(CHOOSE r \in found : TRUE)

\* faulty variant of BurdenRatio: the guard only against zero
BurdenRatioNonZero(annual_cost, avg_annual) ==
    IF avg_annual.n # 0 THEN QDiv(annual_cost, avg_annual) ELSE QInt(0)

\* float(annual_cost) / float(avg_annual) if avg_annual > 0 else 0.0
BurdenRatio(annual_cost, avg_annual) ==
    IF QLt(QInt(0), avg_annual) THEN QDiv(annual_cost, avg_annual) ELSE QInt(0)

cost_burden(d, year, percentile) ==
    LET items == d.basket_item
        annual_cost == BurdenAnnualCost(d)
        rec == WelfareRow(d, year, percentile)
    IN IF items = <<>>
       THEN HTTPException(400, "No basket items in DB. Create items first.")
       ELSE IF rec = None
       THEN HTTPException(404, "No PIP data for year, percentile")
       ELSE LET avg_annual == QMul(rec[1].avg_welfare, QInt(365))
                burden_ratio == BurdenRatio(annual_cost, avg_annual)
            IN [ok |-> TRUE,
                body |-> [year |-> year,
                          percentile |-> percentile,
                          annual_cost |-> Round(annual_cost, 2),
                          avg_welfare_annual_ppp |-> Round(avg_annual, 2),
                          burden_ratio |-> Round(burden_ratio, 4)]]

\* db.query(func.max(HygieneAccess.year)).scalar(): None on an empty table
MaxHygieneYear(d) ==
    IF d.hygiene_access = <<>> THEN None
    ELSE Some(CHOOSE y \in {r.year : r \in Range(d.hygiene_access)} :
                 \A r \in Range(d.hygiene_access) : r.year <= y)

\* latest_year or year: None and 0 are false
ReferenceYear(latest_year, year) ==
    IF latest_year = None \/ latest_year[1] = 0 THEN year ELSE latest_year[1]

\* db.query(HygieneAccess).filter(HygieneAccess.year == y).first(): no ORDER BY,
\* the first row of that year in storage order
FirstHygieneRow(d, y) ==
    LET found == SelectSeq(d.hygiene_access, LAMBDA r : r.year = y)
    IN IF found = <<>> THEN None ELSE Some(Head(found))

\* 1.0 - (hygiene_value / 100.0)
HygieneSeverity(hygiene_value) == QSub(QInt(1), QDiv(hygiene_value, QInt(100)))

\* faulty variant of Combined: the two weights exchanged
CombinedSwapped(burden_ratio, hygiene_severity) ==
    QAdd(QMul(Q(3, 10), burden_ratio), QMul(Q(7, 10), hygiene_severity))

\* 0.7 * burden_ratio + 0.3 * hygiene_severity
Combined(burden_ratio, hygiene_severity) ==
    QAdd(QMul(Q(7, 10), burden_ratio), QMul(Q(3, 10), hygiene_severity))

\* faulty variant of SeverityBurden: the monthly cost taken for the annual cost
SeverityBurdenMonthly(d, year, percentile) ==
    LET items == d.basket_item
        annual_cost == _sum_basket_lines(items)
        rec == WelfareRow(d, year, percentile)
    IN IF items = <<>>
       THEN HTTPException(400, "No basket items in DB. Create items first.")
       ELSE IF rec = None
       THEN HTTPException(404, "No PIP data for year, percentile")
       ELSE LET avg_annual == QMul(rec[1].avg_welfare, QInt(365))
            IN [ok |-> TRUE, rec |-> rec[1], annual_cost |-> annual_cost,
                avg_annual |-> avg_annual,
                burden_ratio |-> BurdenRatio(annual_cost, avg_annual)]

\* the first half of severity_score (its own copy of cost_burden's steps):
\* the annual cost of the stored basket, the welfare row, the burden ratio
SeverityBurden(d, year, percentile) ==
    LET items == d.basket_item
        annual_cost == QMul(_sum_basket_lines(items), QInt(12))
        rec == WelfareRow(d, year, percentile)
    IN IF items = <<>>
       THEN HTTPException(400, "No basket items in DB. Create items first.")
       ELSE IF rec = None
       THEN HTTPException(404, "No PIP data for year, percentile")
       ELSE LET avg_annual == QMul(rec[1].avg_welfare, QInt(365))
            IN [ok |-> TRUE, rec |-> rec[1], annual_cost |-> annual_cost,
                avg_annual |-> avg_annual,
                burden_ratio |-> BurdenRatio(annual_cost, avg_annual)]

severity_score(d, year, percentile) ==
    LET b == SeverityBurden(d, year, percentile)
        latest_year == MaxHygieneYear(d)
        hrow == FirstHygieneRow(d, ReferenceYear(latest_year, year))
    IN IF ~b.ok THEN b
       ELSE IF hrow = None
       THEN HTTPException(404, "No hygiene data available")
       ELSE LET hygiene_value == hrow[1].value
                hygiene_severity == HygieneSeverity(hygiene_value)
                combined == Combined(b.burden_ratio, hygiene_severity)
            IN [ok |-> TRUE,
                body |-> [year |-> b.rec.year,
                          annual_cost |-> Round(b.annual_cost, 2),
                          avg_welfare_annual_ppp |-> Round(b.avg_annual, 2),
                          burden_ratio |-> Round(b.burden_ratio, 4),
                          hygiene_value_pct |-> Round(hygiene_value, 1),
                          hygiene_severity |-> Round(hygiene_severity, 4),
                          combined_severity |-> Round(combined, 4)]]

-----------------------------------------------------------------------------
(* The state: the database, and the request being answered with its        *)
(* outcome.  A route action is one request, served from get_db's session   *)
(* to the response or the HTTPException; none of the four handlers writes  *)
(* to the session.  Respond hands the outcome to the client, after which   *)
(* the next request is served.                                             *)

\* the Session of the request being answered: how often it was opened and
\* closed
NoSession == [opened |-> 0, closed |-> 0]

\* db = SessionLocal()
SessionLocal == [opened |-> 1, closed |-> 0]

\* db.close()
close(s) == [s EXCEPT !.closed = @ + 1]

\* faulty variant of get_db_exit: no try/finally, an exception skips close
get_db_exit_on_return(s, out) == IF out.ok THEN close(s) ELSE s

\* get_db after its yield: the finally clause runs whether the handler
\* returned or raised
get_db_exit(s, out) == close(s)

\* no basket request in flight
Idle == [pc |-> "idle", session |-> NoSession]
NoRequests == [r \in 1..MaxRequests |-> Idle]

EmptyDb == [basket_item |-> <<>>, price_index |-> {}, income_poverty |-> {}, hygiene_access |-> <<>>]

NoRequest == [op |-> "none"]

\* GET /v1/analytics/inflation-trend
GetInflationTrend ==
    \E from_ \in BoundParams, to \in BoundParams :
        /\ resp = NoRequest
        /\ resp' = [op |-> "inflation_trend", from_ |-> from_, to |-> to,
                    out |-> inflation_trend(db, from_, to)]
        /\ session' = SessionLocal
        /\ UNCHANGED <<db, reqs>>

\* POST /v1/analytics/cost-estimate
PostCostEstimate ==
    \E lines \in LinesParams, apply_yoy_cpi \in BOOLEAN :
        LET payload == [lines |-> lines, apply_yoy_cpi |-> apply_yoy_cpi]
        IN /\ resp = NoRequest
           /\ resp' = [op |-> "cost_estimate", payload |-> payload,
                       out |-> cost_estimate(db, payload)]
           /\ db' = cost_estimate_store(db, payload)
           /\ session' = SessionLocal
           /\ UNCHANGED reqs

\* GET /v1/analytics/cost-burden
GetCostBurden ==
    \E year \in Years, percentile \in Percentiles :
        /\ resp = NoRequest
        /\ resp' = [op |-> "cost_burden", year |-> year, percentile |-> percentile,
                    out |-> cost_burden(db, year, percentile)]
        /\ session' = SessionLocal
        /\ UNCHANGED <<db, reqs>>

\* GET /v1/analytics/severity-score
GetSeverityScore ==
    \E year \in Years, percentile \in Percentiles :
        /\ resp = NoRequest
        /\ resp' = [op |-> "severity_score", year |-> year, percentile |-> percentile,
                    out |-> severity_score(db, year, percentile)]
        /\ session' = SessionLocal
        /\ UNCHANGED <<db, reqs>>

\* the response (or the error) goes out; get_db closes the session
Respond ==
    /\ resp # NoRequest
    /\ resp' = NoRequest
    /\ session' = get_db_exit(session, resp.out)
    /\ UNCHANGED <<db, reqs>>

(* The trend route over every price_index table.                           *)
InitTrend ==
    /\ db \in {[EmptyDb EXCEPT !.price_index = p] : p \in PriceTables}
    /\ resp = NoRequest
    /\ session = NoSession
    /\ reqs = NoRequests

NextTrend == GetInflationTrend \/ Respond

SpecTrend == InitTrend /\ [][NextTrend]_vars

(* The cost routes over every basket, price and welfare table.             *)
InitCost ==
    /\ db \in {[basket_item |-> b, price_index |-> p, income_poverty |-> w, hygiene_access |-> <<>>] :
                 b \in BasketTables, p \in PriceTables, w \in WelfareTables}
    /\ resp = NoRequest
    /\ session = NoSession
    /\ reqs = NoRequests

NextCost == PostCostEstimate \/ GetCostBurden \/ Respond

SpecCost == InitCost /\ [][NextCost]_vars

(* The burden and severity routes over every basket, welfare and hygiene   *)
(* table.                                                                  *)
InitSeverity ==
    /\ db \in {[basket_item |-> b, price_index |-> {}, income_poverty |-> w, hygiene_access |-> h] :
                 b \in BasketTables, w \in WelfareTables, h \in HygieneTables}
    /\ resp = NoRequest
    /\ session = NoSession
    /\ reqs = NoRequests

NextSeverity == GetCostBurden \/ GetSeverityScore \/ Respond

SpecSeverity == InitSeverity /\ [][NextSeverity]_vars

(* The four routes together.                                               *)
Init == InitTrend \/ InitCost \/ InitSeverity

Next == GetInflationTrend \/ PostCostEstimate \/ GetCostBurden \/ GetSeverityScore \/ Respond

Spec == Init /\ [][Next]_vars

(* The four routes over every database of at most MaxRows rows, all four   *)
(* tables populated at once.                                               *)
InitReadOnly ==
    /\ db \in {d \in [basket_item : BasketTables, price_index : PriceTables,
                       income_poverty : WelfareTables, hygiene_access : HygieneTables] :
                  Len(d.basket_item) + Cardinality(d.price_index)
                  + Cardinality(d.income_poverty) + Len(d.hygiene_access) <= MaxRows}
    /\ resp = NoRequest
    /\ session = NoSession
    /\ reqs = NoRequests

SpecReadOnly == InitReadOnly /\ [][Next]_vars

-----------------------------------------------------------------------------
(* The basket routes (app/routers/basket.py).  Requests run concurrently,  *)
(* each with its own session: reqs[r] is the request slot r is serving,    *)
(* its position in the handler and its local variables.  A handler step    *)
(* is one round trip to the database (a SELECT, or the statement a commit  *)
(* flushes together with the commit itself) and the Python that follows    *)
(* it; between two steps of a request every other request may run.         *)
(* basket_item is kept in rowid order, the order a SELECT without ORDER    *)
(* BY returns.                                                             *)

\* BasketItemCreate bodies
CreatePayloads == {l \in LineUniverse : l.currency = "GBP"}

\* BasketItemUpdate bodies, the fields that were set (exclude_unset=True)
UpdatePayloads ==
    { [name |-> "tampons"],
      [unit_price |-> QInt(3)] }

\* the item_id path parameter
ItemIds == 1..MaxId

\* the requests that can be in flight
Requests == 1..MaxRequests

\* .filter(BasketItem.id == item_id).first()
RowById(rows, item_id) ==
    LET found == SelectSeq(rows, LAMBDA x : x.id = item_id)
    IN IF found = <<>> THEN None ELSE Some(Head(found))

\* .filter(BasketItem.name == name).first()
RowByName(rows, name) ==
    LET found == SelectSeq(rows, LAMBDA x : x.name = name)
    IN IF found = <<>> THEN None ELSE Some(Head(found))

\* the largest primary key in the table, 0 when it is empty
LargestId(rows) ==
    IF rows = <<>> THEN 0
    ELSE CHOOSE m \in {rows[i].id : i \in DOMAIN rows} :
             \A i \in DOMAIN rows : rows[i].id <= m

\* faulty variant of ViolatesUniqueName: the column declared without unique=True
NoUniqueName(rows, item_id, name) == FALSE

\* name = mapped_column(String, unique=True): a row other than item_id holds
\* the name already (item_id 0 for a row being inserted)
ViolatesUniqueName(rows, item_id, name) ==
    \E i \in DOMAIN rows : rows[i].name = name /\ rows[i].id # item_id

\* an exception no handler catches: the framework answers 500 and get_db
\* closes the session, which rolls the transaction back
Unhandled(exc) ==
    [ok |-> FALSE, status_code |-> 500, detail |-> "Internal Server Error", exc |-> exc]

\* a request at its end, holding what it answers
Done(op, out) == [pc |-> "done", op |-> op, session |-> SessionLocal, out |-> out]

\* creates that passed the name check and have not inserted yet
PendingInserts == Cardinality({r \in Requests : reqs[r].pc = "insert"})

\* POST /v1/basket-items/, lines 19-23: the name check
CreateItem(r) ==
    \E payload \in CreatePayloads :
        LET existing == RowByName(db.basket_item, payload.name)
        IN /\ reqs[r].pc = "idle"
           /\ LargestId(db.basket_item) + PendingInserts < MaxId
           /\ reqs' = [reqs EXCEPT ![r] =
                  IF existing # None
                  THEN Done("create_item", HTTPException(409, "Item name already exists."))
                  ELSE [pc |-> "insert", op |-> "create_item", session |-> SessionLocal,
                        payload |-> payload]]
           /\ UNCHANGED <<db, resp, session>>

\* lines 25-27: db.add(item); db.commit()
CreateItemCommit(r) ==
    /\ reqs[r].pc = "insert"
    /\ LET rows == db.basket_item
           payload == reqs[r].payload
           item == [id |-> LargestId(rows) + 1, name |-> payload.name,
                    unit_price |-> payload.unit_price,
                    units_per_month |-> payload.units_per_month,
                    currency |-> payload.currency, notes |-> payload.notes]
       IN IF ViolatesUniqueName(rows, 0, payload.name)
          THEN /\ reqs' = [reqs EXCEPT ![r] = Done("create_item", Unhandled("IntegrityError"))]
               /\ UNCHANGED db
          ELSE /\ db' = [db EXCEPT !.basket_item = Append(rows, item)]
               /\ reqs' = [reqs EXCEPT ![r] =
                      [pc |-> "refresh", op |-> "create_item", session |-> SessionLocal,
                       item_id |-> item.id]]
    /\ UNCHANGED <<resp, session>>

\* PUT /v1/basket-items/{item_id}, lines 46-52: the lookup and the setattr
\* loop; an attribute set to the value it has is no change
UpdateItem(r) ==
    \E item_id \in ItemIds, payload \in UpdatePayloads :
        LET item == RowById(db.basket_item, item_id)
            changed == {f \in DOMAIN payload : payload[f] # item[1][f]}
        IN /\ reqs[r].pc = "idle"
           /\ reqs' = [reqs EXCEPT ![r] =
                  IF item = None
                  THEN Done("update_item", HTTPException(404, "Item not found"))
                  ELSE [pc |-> "update", op |-> "update_item", session |-> SessionLocal,
                        item_id |-> item_id, changes |-> [f \in changed |-> payload[f]]]]
           /\ UNCHANGED <<db, resp, session>>

\* line 54: db.commit() flushes UPDATE basket_item SET ... WHERE id = item_id
UpdateItemCommit(r) ==
    /\ reqs[r].pc = "update"
    /\ LET rows == db.basket_item
           item_id == reqs[r].item_id
           changes == reqs[r].changes
           refresh == [pc |-> "refresh", op |-> "update_item", session |-> SessionLocal,
                       item_id |-> item_id]
       IN IF DOMAIN changes = {}
          THEN reqs' = [reqs EXCEPT ![r] = refresh] /\ UNCHANGED db
          ELSE IF RowById(rows, item_id) = None
          THEN /\ reqs' = [reqs EXCEPT ![r] = Done("update_item", Unhandled("StaleDataError"))]
               /\ UNCHANGED db
          ELSE IF "name" \in DOMAIN changes /\ ViolatesUniqueName(rows, item_id, changes["name"])
          THEN /\ reqs' = [reqs EXCEPT ![r] = Done("update_item", Unhandled("IntegrityError"))]
               /\ UNCHANGED db
          ELSE /\ db' = [db EXCEPT !.basket_item =
                      [i \in DOMAIN rows |->
                          IF rows[i].id = item_id
                          THEN [f \in DOMAIN rows[i] |->
                                   IF f \in DOMAIN changes THEN changes[f] ELSE rows[i][f]]
                          ELSE rows[i]]]
               /\ reqs' = [reqs EXCEPT ![r] = refresh]
    /\ UNCHANGED <<resp, session>>

\* lines 28-29 and 55-56: db.refresh(item); return item.  Of the answer the
\* status is kept, the row it carries is not
RefreshItem(r) ==
    /\ reqs[r].pc = "refresh"
    /\ LET item == RowById(db.basket_item, reqs[r].item_id)
           status_code == IF reqs[r].op = "create_item" THEN 201 ELSE 200
       IN reqs' = [reqs EXCEPT ![r] =
              IF item = None
              THEN Done(reqs[r].op, Unhandled("InvalidRequestError"))
              ELSE Done(reqs[r].op, [ok |-> TRUE, status_code |-> status_code])]
    /\ UNCHANGED <<db, resp, session>>

\* DELETE /v1/basket-items/{item_id}, lines 60-63: the lookup
DeleteItem(r) ==
    \E item_id \in ItemIds :
        /\ reqs[r].pc = "idle"
        /\ reqs' = [reqs EXCEPT ![r] =
               IF RowById(db.basket_item, item_id) = None
               THEN Done("delete_item", HTTPException(404, "Item not found"))
               ELSE [pc |-> "delete", op |-> "delete_item", session |-> SessionLocal,
                     item_id |-> item_id]]
        /\ UNCHANGED <<db, resp, session>>

\* lines 65-67: db.delete(item); db.commit(); a DELETE that matches no row
\* is a warning, not an exception
DeleteItemCommit(r) ==
    /\ reqs[r].pc = "delete"
    /\ db' = [db EXCEPT !.basket_item = SelectSeq(@, LAMBDA x : x.id # reqs[r].item_id)]
    /\ reqs' = [reqs EXCEPT ![r] =
           Done("delete_item", [ok |-> TRUE, status_code |-> 204])]
    /\ UNCHANGED <<resp, session>>

\* the answer goes out; get_db closes the request's session
BasketRespond(r) ==
    /\ reqs[r].pc = "done"
    /\ reqs' = [reqs EXCEPT ![r] =
           [pc |-> "idle", session |-> get_db_exit(reqs[r].session, reqs[r].out)]]
    /\ UNCHANGED <<db, resp, session>>

(* The basket routes from the empty table.                                 *)
InitBasket ==
    /\ db = EmptyDb
    /\ resp = NoRequest
    /\ session = NoSession
    /\ reqs = NoRequests

NextBasket ==
    \E r \in Requests :
        \/ CreateItem(r) \/ CreateItemCommit(r)
        \/ UpdateItem(r) \/ UpdateItemCommit(r)
        \/ RefreshItem(r)
        \/ DeleteItem(r) \/ DeleteItemCommit(r)
        \/ BasketRespond(r)

SpecBasket == InitBasket /\ [][NextBasket]_vars

(* The requests served one after the other on a single worker: the basket  *)
(* routes on request slot 1, the trend and burden routes beside them, from *)
(* the empty database.  A handler that was entered runs to its end, and    *)
(* the framework always resumes get_db after the handler.                  *)
BasketStep(r) ==
    \/ CreateItemCommit(r) \/ UpdateItemCommit(r) \/ RefreshItem(r)
    \/ DeleteItemCommit(r) \/ BasketRespond(r)

NextSession ==
    \/ GetInflationTrend \/ GetCostBurden \/ Respond
    \/ CreateItem(1) \/ UpdateItem(1) \/ DeleteItem(1)
    \/ BasketStep(1)

SpecSession ==
    /\ InitBasket
    /\ [][NextSession]_vars
    /\ WF_vars(Respond)
    /\ WF_vars(BasketStep(1))

-----------------------------------------------------------------------------
(* What the properties below say of a request and its outcome.             *)

\* the failure conditions, as the handlers signal them
NoBasketData(out) ==
    /\ ~out.ok
    /\ out.status_code = 400
    /\ out.detail \in {"No basket items provided or found in DB.",
                       "No basket items in DB. Create items first."}
NoPriceData(out) ==
    ~out.ok /\ out.status_code = 400 /\ out.detail = "No CPI data available to apply YoY inflation."
NoWelfareData(out) ==
    ~out.ok /\ out.status_code = 404 /\ out.detail = "No PIP data for year, percentile"
NoHygieneData(out) ==
    ~out.ok /\ out.status_code = 404 /\ out.detail = "No hygiene data available"

\* the stored basket, as basket lines, in storage order
StoredLines == [k \in DOMAIN db.basket_item |-> BasketLine(db.basket_item[k])]

\* the lines a cost-estimate request supplies (none when absent)
Supplied(payload) == IF payload.lines = None THEN <<>> ELSE payload.lines[1]

\* the sum of unit price x units per month over the first k lines
RECURSIVE TotalOfFirst(_, _)
TotalOfFirst(lines, k) ==
    IF k = 0 THEN QInt(0)
    ELSE QAdd(TotalOfFirst(lines, k - 1), QMul(lines[k].unit_price, lines[k].units_per_month))
Total(lines) == TotalOfFirst(lines, Len(lines))

\* the price samples with the most recent date
MostRecent == {s \in db.price_index : \A o \in db.price_index : ~DateLt(s.date, o.date)}

\* x * (100 + yoy) / 100, a missing yoy counting as 0
Uplifted(x, s) ==
    LET yoy == IF s.pct_change_yoy = None THEN QInt(0) ELSE s.pct_change_yoy[1]
    IN QDiv(QMul(x, QAdd(QInt(100), yoy)), QInt(100))

\* the welfare records stored for the request's (year, percentile)
WelfareFound == {r \in db.income_poverty : r.year = resp.year /\ r.percentile = resp.percentile}

Annualized(r) == QMul(r.avg_welfare, QInt(365))

(* C1: a cost estimate uses exactly the caller's lines when the caller      *)
(* supplies one or more (the stored basket is ignored) and all the stored  *)
(* basket rows when the caller supplies none (absent or empty); it fails   *)
(* with NoBasketData exactly when both are empty; on success used_lines is *)
(* that sequence and the monthly cost is the (uplifted) total of it.       *)
C1_BasketSource ==
    resp.op = "cost_estimate" =>
        LET supplied == Supplied(resp.payload)
            expected == IF supplied # <<>> THEN supplied ELSE StoredLines
        IN /\ NoBasketData(resp.out) <=> expected = <<>>
           /\ resp.out.ok => resp.out.body.used_lines = expected
           /\ (resp.out.ok /\ ~resp.payload.apply_yoy_cpi) =>
                  resp.out.body.monthly_cost = Round(Total(resp.out.body.used_lines), 2)
           /\ (resp.out.ok /\ resp.payload.apply_yoy_cpi) =>
                  \E s \in MostRecent :
                      resp.out.body.monthly_cost =
                          Round(Uplifted(Total(resp.out.body.used_lines), s), 2)

\* the caller's lines were used although the store holds a different basket
C1_Witness ==
    /\ resp.op = "cost_estimate"
    /\ Supplied(resp.payload) # <<>>
    /\ db.basket_item # <<>>
    /\ resp.out.ok
    /\ resp.out.body.used_lines = Supplied(resp.payload)
    /\ resp.out.body.used_lines # StoredLines
    /\ Total(StoredLines) # Total(Supplied(resp.payload))

(* C2: with a non-empty basket and the uplift flag set, a cost estimate     *)
(* fails with NoPriceData when there is no price sample, and otherwise     *)
(* its monthly cost is the base total times (1 + yoy/100), once, yoy being *)
(* that of the sample with the most recent date and 0 when missing; with   *)
(* the flag not set the monthly cost is the base total whatever the price  *)
(* samples; the annual cost is 12 times the (uplifted) monthly cost.  Both *)
(* are returned rounded to 2 decimals.                                     *)
C2_Uplift ==
    (resp.op = "cost_estimate" /\ ~NoBasketData(resp.out)) =>
        LET supplied == Supplied(resp.payload)
            base == Total(IF supplied # <<>> THEN supplied ELSE StoredLines)
        IN IF resp.payload.apply_yoy_cpi
           THEN /\ db.price_index = {} => NoPriceData(resp.out)
                /\ db.price_index # {} =>
                       /\ resp.out.ok
                       /\ \A s \in MostRecent :
                              /\ resp.out.body.monthly_cost = Round(Uplifted(base, s), 2)
                              /\ resp.out.body.annual_cost =
                                     Round(QMul(QInt(12), Uplifted(base, s)), 2)
           ELSE /\ resp.out.ok
                /\ resp.out.body.monthly_cost = Round(base, 2)
                /\ resp.out.body.annual_cost = Round(QMul(QInt(12), base), 2)

\* an uplift that changes the monthly cost was applied
C2_Witness ==
    /\ resp.op = "cost_estimate"
    /\ resp.payload.apply_yoy_cpi
    /\ resp.out.ok
    /\ Cardinality(db.price_index) > 1
    /\ resp.out.body.monthly_cost # Round(Total(resp.out.body.used_lines), 2)

(* C3 as claimed: the burden ratio is annual cost / annualized welfare      *)
(* whenever annualized welfare is not 0, and 0 when it is 0.               *)
C3_RatioUnlessZero ==
    (resp.op = "cost_burden" /\ resp.out.ok) =>
        \A r \in WelfareFound :
            resp.out.body.burden_ratio =
                IF Annualized(r).n # 0
                THEN Round(QDiv(QMul(QInt(12), Total(StoredLines)), Annualized(r)), 4)
                ELSE QInt(0)

(* C3 as amended: the burden ratio (returned rounded to 4 decimals) is      *)
(* annual cost / annualized welfare whenever annualized welfare is greater *)
(* than 0, and 0 when annualized welfare is 0 or negative; cost_burden     *)
(* ends in a result, NoBasketData or NoWelfareData, never a division       *)
(* error.                                                                  *)
C3_RatioWhenPositive ==
    resp.op = "cost_burden" =>
        /\ resp.out.ok \/ NoBasketData(resp.out) \/ NoWelfareData(resp.out)
        /\ resp.out.ok =>
               /\ WelfareFound # {}
               /\ \A r \in WelfareFound :
                      /\ resp.out.body.avg_welfare_annual_ppp = Round(Annualized(r), 2)
                      /\ resp.out.body.burden_ratio =
                             IF Annualized(r).n > 0
                             THEN Round(QDiv(QMul(QInt(12), Total(StoredLines)), Annualized(r)), 4)
                             ELSE QInt(0)

\* a negative annualized welfare and a basket that costs something: ratio 0
C3_Witness ==
    /\ resp.op = "cost_burden"
    /\ resp.out.ok
    /\ \E r \in WelfareFound : Annualized(r).n < 0
    /\ Total(StoredLines).n > 0
    /\ resp.out.body.burden_ratio = QInt(0)

(* C4: cost_burden fails with NoBasketData whenever the store has no basket *)
(* rows, whatever the welfare table holds; it fails with NoWelfareData     *)
(* exactly when the basket is non-empty and no welfare record exists for   *)
(* the requested (year, percentile); it succeeds in every other case.  A   *)
(* cost estimate with an empty store and no caller-supplied lines fails    *)
(* with NoBasketData.                                                      *)
C4_ErrorOutcomes ==
    /\ resp.op = "cost_burden" =>
           /\ db.basket_item = <<>> => NoBasketData(resp.out)
           /\ NoWelfareData(resp.out) <=> (db.basket_item # <<>> /\ WelfareFound = {})
           /\ (db.basket_item # <<>> /\ WelfareFound # {}) => resp.out.ok
    /\ (resp.op = "cost_estimate" /\ db.basket_item = <<>> /\ Supplied(resp.payload) = <<>>) =>
           NoBasketData(resp.out)

\* no basket rows, a welfare record for the request: NoBasketData
C4_Witness ==
    /\ resp.op = "cost_burden"
    /\ db.basket_item = <<>>
    /\ WelfareFound # {}
    /\ NoBasketData(resp.out)

(* C5: the outcome of cost_burden is the same on every store that has the   *)
(* same basket rows and welfare rows, whatever price samples it holds.     *)
C5_BurdenIgnoresPrices ==
    resp.op = "cost_burden" =>
        \A p \in PriceTables :
            cost_burden([db EXCEPT !.price_index = p], resp.year, resp.percentile) = resp.out

\* a burden computed while the latest price sample carries an uplift
C5_Witness ==
    /\ resp.op = "cost_burden"
    /\ resp.out.ok
    /\ resp.out.body.burden_ratio.n > 0
    /\ \E s \in MostRecent : s.pct_change_yoy # None /\ s.pct_change_yoy[1].n > 0

\* the burden step of the request succeeds: a basket and a welfare record
BurdenStepOk == db.basket_item # <<>> /\ WelfareFound # {}

\* annual cost / annualized welfare when that is positive, else 0 (see C3)
ExactRatio(r) ==
    IF Annualized(r).n > 0
    THEN QDiv(QMul(QInt(12), Total(StoredLines)), Annualized(r))
    ELSE QInt(0)

HygieneRows == Range(db.hygiene_access)

(* C6: on the same store and the same (year, percentile), whenever          *)
(* cost_burden fails severity_score fails with the same condition, and     *)
(* whenever severity_score succeeds its annual cost, annualized welfare    *)
(* and burden ratio are those cost_burden returns and its year is the      *)
(* requested year.                                                         *)
C6_SeverityReusesBurden ==
    resp.op = "severity_score" =>
        LET b == cost_burden(db, resp.year, resp.percentile)
        IN /\ ~b.ok => resp.out = b
           /\ resp.out.ok =>
                  /\ b.ok
                  /\ resp.out.body.annual_cost = b.body.annual_cost
                  /\ resp.out.body.avg_welfare_annual_ppp = b.body.avg_welfare_annual_ppp
                  /\ resp.out.body.burden_ratio = b.body.burden_ratio
                  /\ resp.out.body.year = resp.year

\* a severity score that carries a burden ratio above 0
C6_Witness ==
    /\ resp.op = "severity_score"
    /\ resp.out.ok
    /\ resp.out.body.annual_cost.n > 0
    /\ resp.out.body.burden_ratio.n > 0

(* C7: once the burden step has succeeded, the hygiene reference year is    *)
(* the maximum year over all stored hygiene rows, and the requested year   *)
(* only when the hygiene store is empty; the row used is a row of the      *)
(* reference year, and the operation fails with NoHygieneData (only) when  *)
(* no row exists for the reference year.                                   *)
C7_HygieneReferenceYear ==
    (resp.op = "severity_score" /\ BurdenStepOk) =>
        LET ref == IF HygieneRows = {} THEN resp.year
                   ELSE CHOOSE y \in {r.year : r \in HygieneRows} :
                            \A r \in HygieneRows : r.year <= y
            ofRef == {r \in HygieneRows : r.year = ref}
        IN /\ ofRef = {} => NoHygieneData(resp.out)
           /\ ofRef # {} =>
                  /\ resp.out.ok
                  /\ \E r \in ofRef : resp.out.body.hygiene_value_pct = Round(r.value, 1)

(* C8: two severity_score calls with the same (year, percentile) on stores  *)
(* that hold the same set of rows return the same outcome (the same        *)
(* hygiene row is used) whatever the order in which the rows are stored.   *)
C8_ConsistentHygieneRow ==
    resp.op = "severity_score" =>
        \A h \in HygieneTables :
            Range(h) = HygieneRows =>
                severity_score([db EXCEPT !.hygiene_access = h], resp.year, resp.percentile)
                    = resp.out

DigitsAt(s, ps) == \A i \in ps : IsDigit(s[i])
IsMonthString(s) ==
    /\ Len(s) = 7
    /\ DigitsAt(s, {1, 2, 3, 4, 6, 7}) /\ s[5] = "-"
    /\ ValidDate(IntOf(s, 1, 4), IntOf(s, 6, 2), 1)
IsDayString(s) ==
    /\ Len(s) = 10
    /\ DigitsAt(s, {1, 2, 3, 4, 6, 7, 9, 10}) /\ s[5] = "-" /\ s[8] = "-"
    /\ ValidDate(IntOf(s, 1, 4), IntOf(s, 6, 2), IntOf(s, 9, 2))
IsBound(b) == b = None \/ IsMonthString(b[1]) \/ IsDayString(b[1])

\* the month's first day for YYYY-MM, the day itself for YYYY-MM-DD
Normalized(s) ==
    Date(IntOf(s, 1, 4), IntOf(s, 6, 2), IF Len(s) = 7 THEN 1 ELSE IntOf(s, 9, 2))

\* the date a trend point's YYYY-MM-DD string names
DateOfPoint(pt) == Date(IntOf(pt.date, 1, 4), IntOf(pt.date, 6, 2), IntOf(pt.date, 9, 2))

(* C10: with each supplied bound normalized (YYYY-MM to the month's first   *)
(* day, YYYY-MM-DD kept), inflation_trend returns exactly the price        *)
(* samples dated within lower <= d <= upper, a missing bound not           *)
(* restricting its side, in strictly ascending date order; a sample on a   *)
(* bound is in, a sample a day outside is out, and no match gives an       *)
(* empty result, not an error.                                             *)
C10_TrendRange ==
    (resp.op = "inflation_trend" /\ IsBound(resp.from_) /\ IsBound(resp.to)) =>
        LET matching == { s \in db.price_index :
                            /\ resp.from_ # None => DateLe(Normalized(resp.from_[1]), s.date)
                            /\ resp.to # None => DateLe(s.date, Normalized(resp.to[1])) }
            points == resp.out.body.points
        IN /\ resp.out.ok
           /\ Len(points) = Cardinality(matching)
           /\ \A s \in matching :
                  \E i \in DOMAIN points :
                      /\ Len(points[i].date) = 10
                      /\ DateOfPoint(points[i]) = s.date
                      /\ points[i].cpi_index = s.cpi_index
                      /\ points[i].pct_change_yoy = s.pct_change_yoy
           /\ \A i, j \in DOMAIN points :
                  i < j => DateLt(DateOfPoint(points[i]), DateOfPoint(points[j]))

\* from 2025-01 to 2025-01-31 over samples of 2025-01-31 and 2025-02-01: the
\* one on the upper bound is returned, the one a day after it is not
C10_Witness ==
    /\ resp.op = "inflation_trend"
    /\ resp.from_ = Some(<<"2", "0", "2", "5", "-", "0", "1">>)
    /\ resp.to = Some(<<"2", "0", "2", "5", "-", "0", "1", "-", "3", "1">>)
    /\ {s.date : s \in db.price_index} = {Date(2025, 1, 31), Date(2025, 2, 1)}
    /\ resp.out.ok
    /\ Len(resp.out.body.points) = 1
    /\ DateOfPoint(resp.out.body.points[1]) = Date(2025, 1, 31)

-----------------------------------------------------------------------------
\* the failure parse_month_or_date signals
InvalidDateFormat(out) ==
    /\ ~out.ok
    /\ out.status_code = 400
    /\ out.detail = "Invalid date format. Use YYYY-MM or YYYY-MM-DD."

\* a bound that was supplied and is neither YYYY-MM nor YYYY-MM-DD with the
\* fields of a calendar date
Malformed(b) == b # None /\ ~IsMonthString(b[1]) /\ ~IsDayString(b[1])

(* C11: whenever a lower or an upper bound string is supplied to           *)
(* inflation_trend and is neither YYYY-MM-DD nor YYYY-MM with valid        *)
(* calendar fields ("2025-13", the empty string), the request fails with   *)
(* InvalidDateFormat and returns no points, whatever the other bound is.   *)
C11_InvalidDateFormat ==
    (resp.op = "inflation_trend" /\ (Malformed(resp.from_) \/ Malformed(resp.to))) =>
        InvalidDateFormat(resp.out)

-----------------------------------------------------------------------------
(* C12: the analytics routes are read-only.  Over any sequence of          *)
(* inflation_trend, cost_estimate, cost_burden and severity_score          *)
(* requests, succeeding or failing, the rows of price_index,               *)
(* income_poverty, hygiene_access and basket_item stay as they were; in    *)
(* particular the lines a cost_estimate body carries are never stored.     *)
C12_AnalyticsReadOnly == [][db' = db]_vars

\* a cost estimate that succeeded on lines of its body, one of them of a
\* name the table does not hold, while the table holds other rows
C12_Witness ==
    /\ resp.op = "cost_estimate"
    /\ resp.out.ok
    /\ Truthy(resp.payload.lines)
    /\ db.basket_item # <<>>
    /\ \E i \in DOMAIN resp.payload.lines[1] :
           \A j \in DOMAIN db.basket_item :
               db.basket_item[j].name # resp.payload.lines[1][i].name

-----------------------------------------------------------------------------
(* C13: stored basket names stay unique.  In every state reachable by any  *)
(* interleaving of create_item, update_item (renaming updates included)    *)
(* and delete_item requests, no two rows of basket_item have the same      *)
(* name.                                                                   *)
C13_NamesUnique ==
    \A i, j \in DOMAIN db.basket_item :
        db.basket_item[i].name = db.basket_item[j].name => i = j

\* two rows are stored, an update that renamed one to the other's name was
\* refused at its commit, and a create that passed its name check is still
\* waiting to insert
C13_Witness ==
    /\ Len(db.basket_item) = 2
    /\ \E r \in Requests :
           /\ reqs[r].pc = "done"
           /\ reqs[r].op = "update_item"
           /\ reqs[r].out = Unhandled("IntegrityError")
    /\ \E r \in Requests : reqs[r].pc = "insert"

-----------------------------------------------------------------------------
\* a session that was opened and not closed yet
Open(s) == s.closed < s.opened
\* a session that was opened once and closed once
ClosedOnce(s) == s.opened = 1 /\ s.closed = 1

(* C14: the session get_db opens for a request is eventually closed, and   *)
(* closed exactly once, whether the handler returns a result or fails      *)
(* (NoBasketData, NoWelfareData, InvalidDateFormat, a conflict, an         *)
(* exception of the commit); no completed request leaves its session open. *)
C14_SessionReleased ==
    /\ [](/\ session.closed <= session.opened
          /\ session.opened <= 1
          /\ resp = NoRequest => ~Open(session)
          /\ \A r \in Requests :
                 /\ reqs[r].session.closed <= reqs[r].session.opened
                 /\ reqs[r].session.opened <= 1
                 /\ reqs[r].pc = "idle" => ~Open(reqs[r].session))
    /\ Open(session) ~> ClosedOnce(session)
    /\ \A r \in Requests : Open(reqs[r].session) ~> ClosedOnce(reqs[r].session)

\* a burden request that failed with NoWelfareData still holds its session,
\* while the basket request before it was answered and its session closed
\* once; two rows are stored
C14_Witness ==
    /\ resp.op = "cost_burden"
    /\ NoWelfareData(resp.out)
    /\ Open(session)
    /\ reqs[1].pc = "idle"
    /\ ClosedOnce(reqs[1].session)
    /\ Len(db.basket_item) = 2

-----------------------------------------------------------------------------
\* the Conflict outcome of create_item
Conflict(out) ==
    ~out.ok /\ out.status_code = 409 /\ out.detail = "Item name already exists."

\* a create request that ended without storing a row: its name was held by
\* a persisted row when it looked or when it inserted (the other failure of
\* a create, InvalidRequestError, is of a row that was stored and deleted
\* again before the refresh)
RefusedCreate(q) ==
    /\ q.pc = "done"
    /\ q.op = "create_item"
    /\ ~q.out.ok
    /\ q.out # Unhandled("InvalidRequestError")

(* C15: a create_item request whose name is the name of a persisted row    *)
(* always ends in Conflict (409, "Item name already exists."), on every    *)
(* interleaving of concurrent create_item requests of the same name: one   *)
(* is stored, every other one ends in Conflict.                            *)
C15_CreateConflict ==
    \A r \in Requests : RefusedCreate(reqs[r]) => Conflict(reqs[r].out)

====
